---------------------------- MODULE Spec2Model ----------------------------
(***************************************************************************)
(* A model of guardrails/utils/pydantic_utils.py: the compiler from a      *)
(* pydantic model class to a tree of lxml elements.                        *)
(*                                                                         *)
(* Values.                                                                 *)
(*   type annotation  [k, n, args]   k is "prim", "list", "dict", "Union"  *)
(*                                   or "model"; n names the primitive or  *)
(*                                   the model class; args is get_args()   *)
(*   ModelField       [k |-> "field", name, annotation, has_gd_validators, *)
(*                     gd_validators, description, when]                   *)
(*   Optional[x]      <<>> for None, <<x>> for a value                     *)
(*   Element          [tag, attrib, children]; attrib is the sequence of   *)
(*                    <<key, value>> pairs in insertion order              *)
(*   result           [ok |-> TRUE, val |-> v] for a return value v,       *)
(*                    [ok |-> FALSE, val |-> e] for a raised exception e   *)
(***************************************************************************)
EXTENDS Integers, Sequences, FiniteSets, TLC

VARIABLES
    classes,    \* the declared model classes: class name -> __fields__, in declaration order
    call,       \* the call made by the caller: its function and arguments
    result,     \* what that call returned or raised
    prev        \* the calls that came before it, with their results, oldest first

vars == <<classes, call, result, prev>>

-----------------------------------------------------------------------------
(* Python values *)

None == <<>>
Some(x) == <<x>>

Ok(v) == [ok |-> TRUE, val |-> v]
Raise(e) == [ok |-> FALSE, val |-> e]

UnsupportedTypeError == "ValueError: Unsupported type"
UnionError == "AssertionError: Union type must have exactly one non-None type"
KeyTypeError == "AssertionError: Only string keys are supported for dicts"
IndexError == "IndexError: tuple index out of range"
RecursionError == "RecursionError: maximum recursion depth exceeded"

(* Type annotations *)
Prim(n) == [k |-> "prim", n |-> n, args |-> <<>>]
ListOf(args) == [k |-> "list", n |-> "list", args |-> args]
DictOf(args) == [k |-> "dict", n |-> "dict", args |-> args]
UnionOf(args) == [k |-> "Union", n |-> "Union", args |-> args]
Model(n) == [k |-> "model", n |-> n, args |-> <<>>]

NoneType == Prim("NoneType")
str == Prim("str")
int == Prim("int")
bool == Prim("bool")
float == Prim("float")
date == Prim("date")
time == Prim("time")
HttpUrl == Prim("HttpUrl")
bytes == Prim("bytes")

isinstance_ModelField(x) == x.k = "field"

get_origin(t) == IF t.k \in {"list", "dict", "Union"} THEN t.k ELSE "None"

get_args(t) == t.args

(* lxml elements *)
E(tag) == [tag |-> tag, attrib |-> <<>>, children |-> <<>>]

HasAttrib(element, key) == \E i \in 1..Len(element.attrib) : element.attrib[i][1] = key

Get(element, key) ==
    IF HasAttrib(element, key)
    THEN Some(element.attrib[CHOOSE i \in 1..Len(element.attrib) : element.attrib[i][1] = key][2])
    ELSE None

Set(element, key, value) ==
    IF HasAttrib(element, key)
    THEN [element EXCEPT !.attrib =
            [i \in 1..Len(element.attrib) |->
                IF element.attrib[i][1] = key THEN <<key, value>> ELSE element.attrib[i]]]
    ELSE [element EXCEPT !.attrib = Append(element.attrib, <<key, value>>)]

AppendChild(element, child) == [element EXCEPT !.children = Append(element.children, child)]

-----------------------------------------------------------------------------
(* The type normalizer and the type classifier *)

is_pydantic_base_model(type_annotation) == type_annotation.k = "model"

(* A variant that strips the Union only of what is no ModelField *)
prepare_type_annotation_elif(type_annotation) ==
    IF isinstance_ModelField(type_annotation)
    THEN Ok(type_annotation.annotation)
    ELSE IF get_origin(type_annotation) = "Union"
         THEN LET non_none == SelectSeq(get_args(type_annotation), LAMBDA t : t # NoneType)
              IN  IF Len(non_none) = 1 THEN Ok(non_none[1]) ELSE Raise(UnionError)
         ELSE Ok(type_annotation)

prepare_type_annotation(type_annotation) ==
    LET annotation == IF isinstance_ModelField(type_annotation)
                      THEN type_annotation.annotation
                      ELSE type_annotation
    IN  IF get_origin(annotation) = "Union"
        THEN LET non_none == SelectSeq(get_args(annotation), LAMBDA t : t # NoneType)
             IN  IF Len(non_none) = 1 THEN Ok(non_none[1]) ELSE Raise(UnionError)
        ELSE Ok(annotation)

is_list(type_annotation) ==
    LET prepared == prepare_type_annotation(type_annotation)
    IN  IF ~prepared.ok THEN prepared
        ELSE IF is_pydantic_base_model(prepared.val) THEN Ok(FALSE)
        ELSE Ok(get_origin(prepared.val) = "list" \/ prepared.val = ListOf(<<>>))

is_dict(type_annotation) ==
    LET prepared == prepare_type_annotation(type_annotation)
    IN  IF ~prepared.ok THEN prepared
        ELSE IF is_pydantic_base_model(prepared.val) THEN Ok(TRUE)
        ELSE Ok(get_origin(prepared.val) = "dict" \/ prepared.val = DictOf(<<>>))

(* A variant that takes any other type for a string instead of raising *)
ScalarName_default(type_annotation) ==
    CASE type_annotation = bool -> Ok("bool")
      [] type_annotation = date -> Ok("date")
      [] type_annotation = float -> Ok("float")
      [] type_annotation = int -> Ok("integer")
      [] type_annotation = time -> Ok("time")
      [] type_annotation = HttpUrl -> Ok("url")
      [] OTHER -> Ok("string")

ScalarName(type_annotation) ==
    CASE type_annotation = bool -> Ok("bool")
      [] type_annotation = date -> Ok("date")
      [] type_annotation = float -> Ok("float")
      [] type_annotation = int -> Ok("integer")
      [] type_annotation = str -> Ok("string")
      [] type_annotation = time -> Ok("time")
      [] type_annotation = HttpUrl -> Ok("url")
      [] OTHER -> Raise(UnsupportedTypeError)

type_annotation_to_string(type_annotation) ==
    LET prepared == prepare_type_annotation(type_annotation)
    IN  IF ~prepared.ok THEN prepared
        ELSE LET list == is_list(prepared.val)
                 dict == is_dict(prepared.val)
             IN  IF ~list.ok THEN list
                 ELSE IF list.val THEN Ok("list")
                 ELSE IF ~dict.ok THEN dict
                 ELSE IF dict.val THEN Ok("object")
                 ELSE ScalarName(prepared.val)

-----------------------------------------------------------------------------
(* The validator encoder.  A validator is                                  *)
(*   [is_str, text, rail_alias, on_fail]                                   *)
(* is_str: the validator was given as a string, which is then its text;    *)
(* otherwise text is what to_xml_attrib() returns, and on_fail is None or  *)
(* the __name__ of the on_fail callable.                                   *)

RECURSIVE join(_, _)
join(sep, strings) ==
    IF Len(strings) = 0 THEN ""
    ELSE IF Len(strings) = 1 THEN strings[1]
    ELSE strings[1] \o sep \o join(sep, Tail(strings))

(* d[key] = value on a dict kept as the sequence of its <<key, value>> items *)
DictSet(d, key, value) ==
    IF \E i \in 1..Len(d) : d[i][1] = key
    THEN [i \in 1..Len(d) |-> IF d[i][1] = key THEN <<key, value>> ELSE d[i]]
    ELSE Append(d, <<key, value>>)

(* A variant that keeps the first on_fail of a rail alias *)
on_fail_name_first(on_fails, validator) ==
    IF \E i \in 1..Len(on_fails) : on_fails[i][1] = validator.rail_alias
    THEN on_fails
    ELSE Append(on_fails, <<validator.rail_alias,
                            IF validator.on_fail # None THEN validator.on_fail[1] ELSE "noop">>)

on_fail_entry(on_fails, validator) ==
    DictSet(on_fails, validator.rail_alias,
            IF validator.on_fail # None THEN validator.on_fail[1] ELSE "noop")

RECURSIVE on_fails_of(_, _)
on_fails_of(gd_validators, n) ==
    IF n = 0 THEN <<>>
    ELSE IF gd_validators[n].is_str THEN on_fails_of(gd_validators, n - 1)
    ELSE on_fail_entry(on_fails_of(gd_validators, n - 1), gd_validators[n])

RECURSIVE set_on_fails(_, _, _)
set_on_fails(element, on_fails, i) ==
    IF i > Len(on_fails) THEN element
    ELSE set_on_fails(Set(element, "on-fail-" \o on_fails[i][1], on_fails[i][2]), on_fails, i + 1)

add_validators_to_xml_element(field_info, element) ==
    IF isinstance_ModelField(field_info) /\ field_info.has_gd_validators
    THEN LET gd_validators == field_info.gd_validators
             format_prompt == [i \in 1..Len(gd_validators) |-> gd_validators[i].text]
             on_fails == on_fails_of(gd_validators, Len(gd_validators))
         IN  IF Len(format_prompt) > 0
             THEN set_on_fails(Set(element, "format", join("; ", format_prompt)), on_fails, 1)
             ELSE element
    ELSE element

-----------------------------------------------------------------------------
(* The tree builder.  depth is the number of create_xml_element_* frames   *)
(* on the interpreter's stack, the called one included; the interpreter    *)
(* raises RecursionError in a call that would exceed its recursion limit.  *)

RecursionLimit == 10

RECURSIVE create_xml_element_for_field(_, _, _)
RECURSIVE create_xml_element_for_base_model(_, _, _)
RECURSIVE add_fields(_, _, _, _, _, _)
RECURSIVE add_cases(_, _, _, _)
RECURSIVE add_choices(_, _, _, _)

(* field.field_info.when, when the attribute is there and truthy *)
has_when(field) == field.when # None /\ field.when[1] # ""

(* choice_elements[key].append(item) on a defaultdict(list) kept as the    *)
(* sequence of its [when, fields] entries in insertion order               *)
(* A variant that never finds the key *)
append_to_new_key(d, key, item) == Append(d, [when |-> key, fields |-> <<item>>])

append_to_key(d, key, item) ==
    IF \E i \in 1..Len(d) : d[i].when = key
    THEN [i \in 1..Len(d) |->
            IF d[i].when = key THEN [d[i] EXCEPT !.fields = Append(@, item)] ELSE d[i]]
    ELSE Append(d, [when |-> key, fields |-> <<item>>])

RECURSIVE choice_elements_of(_, _)
choice_elements_of(fields, n) ==
    IF n = 0 THEN <<>>
    ELSE IF has_when(fields[n])
         THEN append_to_key(choice_elements_of(fields, n - 1), fields[n].when[1], fields[n])
         ELSE choice_elements_of(fields, n - 1)

case_elements_of(fields) == {fields[i].name : i \in {j \in 1..Len(fields) : has_when(fields[j])}}

(* A variant that skips only the fields that carry a key *)
skips_case_fields_only(field_name, choice_elements, case_elements) ==
    field_name \in case_elements

skips_field(field_name, choice_elements, case_elements) ==
    \/ \E i \in 1..Len(choice_elements) : choice_elements[i].when = field_name
    \/ field_name \in case_elements

(* A variant that sets no name *)
unnamed_element(field_type, field_name) == E(field_type)

named_element(field_type, field_name) ==
    IF field_name # None /\ field_name[1] # ""
    THEN Set(E(field_type), "name", field_name[1])
    ELSE E(field_type)

(* The element as it is before the children are added *)
element_of_field(field, field_type, field_name) ==
    LET element == add_validators_to_xml_element(field, named_element(field_type, field_name))
    IN  IF isinstance_ModelField(field) /\ field.description # None
        THEN Set(element, "description", field.description[1])
        ELSE element

(* A variant that does not compile what is inside the inner type *)
list_item_leaf(inner_type, depth) ==
    LET field_type == type_annotation_to_string(inner_type)
    IN  IF field_type.ok THEN Ok(E(field_type.val)) ELSE field_type

list_item_element(inner_type, depth) ==
    IF is_pydantic_base_model(inner_type)
    THEN create_xml_element_for_base_model(inner_type.n, None, depth + 1)
    ELSE create_xml_element_for_field(inner_type, None, depth + 1)

create_xml_element_for_field(field, field_name, depth) ==
    IF depth > RecursionLimit THEN Raise(RecursionError)
    ELSE
    LET field_type == type_annotation_to_string(field)
    IN  IF ~field_type.ok THEN field_type
        ELSE
        LET element == element_of_field(field, field_type.val, field_name)
        IN  IF field_type.val \in {"list", "object"}
            THEN LET type_annotation == prepare_type_annotation(field).val
                 IN  IF is_list(type_annotation).val
                     THEN LET inner_type == get_args(type_annotation)
                          IN  IF Len(inner_type) = 0
                              THEN Raise(IndexError)
                              ELSE LET inner_element == list_item_element(inner_type[1], depth)
                                   IN  IF inner_element.ok
                                       THEN Ok(AppendChild(element, inner_element.val))
                                       ELSE inner_element
                     ELSE IF is_dict(type_annotation).val
                     THEN IF is_pydantic_base_model(type_annotation)
                          THEN create_xml_element_for_base_model(
                                   type_annotation.n, Some(element), depth + 1)
                          ELSE LET dict_args == get_args(type_annotation)
                               IN  IF Len(dict_args) = 2
                                   THEN IF dict_args[1] # str
                                        THEN Raise(KeyTypeError)
                                        ELSE LET inner_element ==
                                                     create_xml_element_for_field(
                                                         dict_args[2], None, depth + 1)
                                             IN  IF inner_element.ok
                                                 THEN Ok(AppendChild(element, inner_element.val))
                                                 ELSE inner_element
                                   ELSE Ok(element)
                     ELSE Raise(UnsupportedTypeError)
            ELSE Ok(element)

(* A variant that ignores the element it is given *)
fresh_element(element) == E("object")

initial_element(element) == IF element = None THEN E("object") ELSE element[1]

(* The loop over model.__fields__ that adds the fields, from field i on *)
add_fields(fields, i, choice_elements, case_elements, element, depth) ==
    IF i > Len(fields) THEN Ok(element)
    ELSE IF skips_field(fields[i].name, choice_elements, case_elements)
    THEN add_fields(fields, i + 1, choice_elements, case_elements, element, depth)
    ELSE LET field_element ==
                 create_xml_element_for_field(fields[i], Some(fields[i].name), depth + 1)
         IN  IF field_element.ok
             THEN add_fields(fields, i + 1, choice_elements, case_elements,
                             AppendChild(element, field_element.val), depth)
             ELSE field_element

(* The loop over one key's discriminator_fields, from field i on *)
add_cases(discriminator_fields, i, choice_element, depth) ==
    IF i > Len(discriminator_fields) THEN Ok(choice_element)
    ELSE LET field == discriminator_fields[i]
             case_element == Set(E("case"), "name", field.name)
             field_element == create_xml_element_for_field(field, Some(field.name), depth + 1)
         IN  IF field_element.ok
             THEN add_cases(discriminator_fields, i + 1,
                            AppendChild(choice_element,
                                        AppendChild(case_element, field_element.val)),
                            depth)
             ELSE field_element

(* The loop over choice_elements.items(), from entry i on *)
add_choices(choice_elements, i, element, depth) ==
    IF i > Len(choice_elements) THEN Ok(element)
    ELSE LET choice_element ==
                 add_cases(choice_elements[i].fields, 1,
                           Set(Set(E("choice"), "name", choice_elements[i].when),
                               "on-fail-choice", "exception"),
                           depth)
         IN  IF choice_element.ok
             THEN add_choices(choice_elements, i + 1,
                              AppendChild(element, choice_element.val), depth)
             ELSE choice_element

create_xml_element_for_base_model(model, element, depth) ==
    IF depth > RecursionLimit THEN Raise(RecursionError)
    ELSE
    LET fields == classes[model]
        choice_elements == choice_elements_of(fields, Len(fields))
        case_elements == case_elements_of(fields)
        with_fields == add_fields(fields, 1, choice_elements, case_elements,
                                  initial_element(element), depth)
    IN  IF with_fields.ok
        THEN add_choices(choice_elements, 1, with_fields.val, depth)
        ELSE with_fields

-----------------------------------------------------------------------------
(* The inputs: validators, fields, types and model classes *)

MaxFields == 3
MaxValidators == 3
MaxUnion == 3
MaxChain == 2

Validator(text, rail_alias, on_fail) ==
    [is_str |-> FALSE, text |-> text, rail_alias |-> rail_alias, on_fail |-> on_fail]

StrValidator(text) == [is_str |-> TRUE, text |-> text, rail_alias |-> "", on_fail |-> None]

Validators ==
    { Validator("length: 1 10", "length", Some("reask")),
      Validator("valid-choices: {['a', 'b']}", "valid-choices", None),
      Validator("length: 2 3", "length", Some("fix")),
      StrValidator("two-words") }

ModelField(name, annotation, gd_validators, description, when) ==
    [k |-> "field", name |-> name, annotation |-> annotation,
     has_gd_validators |-> gd_validators # None,
     gd_validators |-> IF gd_validators # None THEN gd_validators[1] ELSE <<>>,
     description |-> description, when |-> when]

PlainField(name, annotation, when) == ModelField(name, annotation, None, None, when)

DescribedField(name, annotation, when) ==
    ModelField(name, annotation,
               Some(<<Validator("length: 1 10", "length", Some("reask")), StrValidator("two-words")>>),
               Some("the " \o name), when)

FieldNames == <<"a", "b", "c", "d", "e">>

Whens == {None, Some("b"), Some("shape")}

Optional(t) == UnionOf(<<t, NoneType>>)

FieldTypes ==
    { str, Optional(int), bytes, UnionOf(<<int, str>>), UnionOf(<<int, str, float>>),
      ListOf(<<str>>), ListOf(<<>>), ListOf(<<ListOf(<<>>)>>), ListOf(<<bytes>>),
      ListOf(<<Model("B")>>), ListOf(<<Optional(Model("B"))>>), Optional(ListOf(<<int>>)),
      Model("B"), Optional(Model("B")),
      DictOf(<<str, int>>), DictOf(<<int, str>>), DictOf(<<>>), DictOf(<<str, Model("Bad")>>),
      Model("Bad"), Model("D"), Model("R"), Model("P"), DictOf(<<str, Model("P")>>) }

(* The classes the model class A may refer to.  R refers to itself, P      *)
(* refers back to A, and D has a field named like its discriminator key.   *)
OtherClasses ==
    [ A   |-> <<>>,
      B   |-> << DescribedField("p", str, None), PlainField("q", Optional(int), None) >>,
      Bad |-> << PlainField("p", str, None), PlainField("q", bytes, None) >>,
      D   |-> << PlainField("kind", bytes, None), PlainField("u", str, Some("kind")),
                 PlainField("v", Model("B"), Some("kind")) >>,
      R   |-> << PlainField("r", ListOf(<<Model("R")>>), None) >>,
      P   |-> << PlainField("up", Model("A"), None) >> ]

(* The bodies of class A: up to MaxFields fields of type str without       *)
(* validators or description, but for one field that has any of FieldTypes *)
(* and has validators and a description                                    *)
BodiesOfA ==
    UNION { { [i \in 1..n |->
                 IF i = focus
                 THEN DescribedField(FieldNames[i], t, whens[i])
                 ELSE PlainField(FieldNames[i], str, whens[i])] :
              whens \in [1..n -> Whens], focus \in 1..n, t \in FieldTypes }
          : n \in 1..MaxFields }

Atoms ==
    { str, int, bool, float, date, time, HttpUrl, bytes, NoneType,
      Model("B"), ListOf(<<>>), DictOf(<<>>) }

UnionMembers == { NoneType, int, str, ListOf(<<int>>), Model("B") }

(* Union[...] is flat, has no member twice and has two members or more *)
Unions ==
    { UnionOf(args) : args \in
        { a \in UNION { [1..n -> UnionMembers] : n \in 2..MaxUnion } :
            \A i, j \in 1..Len(a) : i # j => a[i] # a[j] } }

TypeAnnotations ==
    Atoms \cup Unions \cup FieldTypes
        \cup { ListOf(<<t>>) : t \in Atoms \cup Unions }
        \cup { DictOf(<<key, t>>) : key \in {str, int}, t \in Atoms }

PrepareInputs == TypeAnnotations \cup { PlainField("a", t, None) : t \in TypeAnnotations }

ValidatorLists == UNION { [1..n -> Validators] : n \in 0..MaxValidators }

ValidatorInputs ==
    { ModelField("a", str, Some(gd_validators), None, None) : gd_validators \in ValidatorLists }
        \cup { PlainField("a", str, None), str }

-----------------------------------------------------------------------------
(* The compiler has no state of its own: a behaviour is one call, or a     *)
(* chain of calls each made on the result of the one before.               *)

NoCall == [op |-> "none"]

Init ==
    /\ classes \in { [OtherClasses EXCEPT !.A = body] : body \in BodiesOfA }
    /\ call = NoCall
    /\ result = Ok(None)
    /\ prev = <<>>

CallBuildObject ==
    /\ call = NoCall
    /\ \E model \in {"A"} :
          /\ call' = [op |-> "create_xml_element_for_base_model", model |-> model]
          /\ result' = create_xml_element_for_base_model(model, None, 1)
    /\ UNCHANGED <<classes, prev>>

CallBuildField ==
    /\ call = NoCall
    /\ \E i \in 1..Len(classes.A), named \in BOOLEAN :
          LET field == classes.A[i]
              field_name == IF named THEN Some(field.name) ELSE None
          IN  /\ call' = [op |-> "create_xml_element_for_field",
                          field |-> field, field_name |-> field_name]
              /\ result' = create_xml_element_for_field(field, field_name, 1)
    /\ UNCHANGED <<classes, prev>>

Next == CallBuildObject \/ CallBuildField

Spec == Init /\ [][Next]_vars

(* The normalizer and the classifier on their own *)
InitTypes ==
    /\ classes = OtherClasses
    /\ call = NoCall
    /\ result = Ok(None)
    /\ prev = <<>>

CallPrepare ==
    /\ call = NoCall
    /\ \E type_annotation \in PrepareInputs :
          /\ call' = [op |-> "prepare_type_annotation", type_annotation |-> type_annotation]
          /\ result' = prepare_type_annotation(type_annotation)
    /\ UNCHANGED <<classes, prev>>

CallPrepareOnResult ==
    /\ call.op = "prepare_type_annotation"
    /\ result.ok
    /\ Len(prev) < MaxChain
    /\ call' = [op |-> "prepare_type_annotation", type_annotation |-> result.val]
    /\ result' = prepare_type_annotation(result.val)
    /\ prev' = Append(prev, [call |-> call, result |-> result])
    /\ UNCHANGED classes

CallTypeToString ==
    /\ call = NoCall
    /\ \E type_annotation \in PrepareInputs :
          /\ call' = [op |-> "type_annotation_to_string", type_annotation |-> type_annotation]
          /\ result' = type_annotation_to_string(type_annotation)
    /\ UNCHANGED <<classes, prev>>

NextTypes == CallPrepare \/ CallPrepareOnResult \/ CallTypeToString

SpecTypes == InitTypes /\ [][NextTypes]_vars

(* The validator encoder on its own *)
CallAddValidators ==
    /\ call = NoCall
    /\ \E field_info \in ValidatorInputs, element \in {E("string"), Set(E("string"), "name", "a")} :
          /\ call' = [op |-> "add_validators_to_xml_element",
                      field_info |-> field_info, element |-> element]
          /\ result' = Ok(add_validators_to_xml_element(field_info, element))
    /\ UNCHANGED <<classes, prev>>

NextValidators == CallAddValidators

SpecValidators == InitTypes /\ [][NextValidators]_vars

-----------------------------------------------------------------------------
(* What the properties are stated with *)

IsBuildObject == call.op = "create_xml_element_for_base_model"
IsBuildField == call.op = "create_xml_element_for_field"

Range(seq) == {seq[i] : i \in 1..Len(seq)}

Names(elements) == [i \in 1..Len(elements) |-> Get(elements[i], "name")]

FieldNamesOf(fields) == [i \in 1..Len(fields) |-> Some(fields[i].name)]

CarriesKey(field) == field.when # None /\ field.when[1] # ""

KeysUsed(fields) == {f.when[1] : f \in {g \in Range(fields) : CarriesKey(g)}}

FirstUse(fields, key) ==
    CHOOSE i \in 1..Len(fields) :
        /\ CarriesKey(fields[i]) /\ fields[i].when[1] = key
        /\ \A j \in 1..(i - 1) : ~(CarriesKey(fields[j]) /\ fields[j].when[1] = key)

KeysInOrder(fields) ==
    CHOOSE keys \in [1..Cardinality(KeysUsed(fields)) -> KeysUsed(fields)] :
        \A i, j \in 1..Len(keys) : i < j => FirstUse(fields, keys[i]) < FirstUse(fields, keys[j])

ChoiceChildren(element) == SelectSeq(element.children, LAMBDA c : c.tag = "choice")
PlainChildren(element) == SelectSeq(element.children, LAMBDA c : c.tag # "choice")

(* The type a union with one non-null member stands for *)
NonNull(t) == {m \in Range(t.args) : m # NoneType}
Core(t) == IF t.k = "Union" /\ Cardinality(NonNull(t)) = 1 THEN CHOOSE m \in NonNull(t) : TRUE ELSE t

Scalars == {bool, date, float, int, str, time, HttpUrl}

(* The errors the type t calls for by itself *)
ErrorsOf(t) ==
    IF t.k = "Union" /\ Cardinality(NonNull(t)) # 1 THEN {UnionError}
    ELSE IF Core(t).k = "prim" /\ Core(t) \notin Scalars THEN {UnsupportedTypeError}
    ELSE IF Core(t).k = "dict" /\ Len(Core(t).args) = 2 /\ Core(t).args[1] # str THEN {KeyTypeError}
    ELSE {}

(* The types directly inside t: the element type, the value type, the      *)
(* types of the fields; with skipped, but for the fields without a key     *)
(* that are named like a key of their own model                            *)
Inside(t, skipped) ==
    LET c == Core(t)
    IN  IF c.k = "list" /\ Len(c.args) > 0 THEN {c.args[1]}
        ELSE IF c.k = "dict" /\ Len(c.args) = 2 THEN {c.args[2]}
        ELSE IF c.k = "model"
        THEN {f.annotation : f \in {g \in Range(classes[c.n]) :
                   skipped => (CarriesKey(g) \/ g.name \notin KeysUsed(classes[c.n]))}}
        ELSE {}

RECURSIVE Closure(_, _)
Closure(types, skipped) ==
    LET more == types \cup UNION {Inside(t, skipped) : t \in types}
    IN  IF more = types THEN types ELSE Closure(more, skipped)

TypesIn(model) == Closure({f.annotation : f \in Range(classes[model])}, FALSE)
TypesReached(model) == Closure(Inside(Model(model), TRUE), TRUE)

-----------------------------------------------------------------------------
(* C1: when create_xml_element_for_base_model returns, the object element  *)
(* has one choice element per key that the fields carry, named after the   *)
(* key, in the order in which the keys are first used; each choice element *)
(* has only case children, one per field that carries its key, named after *)
(* the field and in declaration order; and no other child of the object    *)
(* element is named after a field that carries a key.                      *)
C1_OneChoicePerKey ==
    (IsBuildObject /\ result.ok) =>
        LET fields == classes[call.model]
            keys == KeysInOrder(fields)
            choices == ChoiceChildren(result.val)
        IN  /\ Names(choices) = [i \in 1..Len(keys) |-> Some(keys[i])]
            /\ \A i \in 1..Len(choices) :
                 /\ \A c \in Range(choices[i].children) : c.tag = "case"
                 /\ Names(choices[i].children) =
                        FieldNamesOf(SelectSeq(fields,
                            LAMBDA f : CarriesKey(f) /\ f.when[1] = keys[i]))
            /\ \A c \in Range(PlainChildren(result.val)) :
                 Get(c, "name") \notin {Some(f.name) : f \in {g \in Range(fields) : CarriesKey(g)}}

(* C1's case: two keys, the first of them carried by two fields *)
C1_Witness ==
    /\ IsBuildObject /\ result.ok
    /\ Len(ChoiceChildren(result.val)) = 2
    /\ Len(ChoiceChildren(result.val)[1].children) = 2
    /\ Len(PlainChildren(result.val)) = 0

C6_CaseChildUnnamed ==
    (IsBuildObject /\ result.ok) =>
        \A choice \in Range(ChoiceChildren(result.val)) :
            \A case \in Range(choice.children) :
                /\ Len(case.children) = 1
                /\ Get(case.children[1], "name") = None

(* C6 as amended: each case element has one child, and that child has the  *)
(* name attribute of the case element, the name of the field.              *)
C6_CaseChildNamedLikeCase ==
    (IsBuildObject /\ result.ok) =>
        \A choice \in Range(ChoiceChildren(result.val)) :
            \A case \in Range(choice.children) :
                /\ Len(case.children) = 1
                /\ Get(case.children[1], "name") # None
                /\ Get(case.children[1], "name") = Get(case, "name")

(* C6's case: a case element around a nested record *)
C6_Witness ==
    /\ IsBuildObject /\ result.ok
    /\ \E choice \in Range(ChoiceChildren(result.val)) :
          \E case \in Range(choice.children) :
              /\ Len(case.children) = 1
              /\ case.children[1].tag = "object"
              /\ Len(case.children[1].children) > 0

C5_BareListIsChildless ==
    (IsBuildField /\ Core(call.field.annotation) = ListOf(<<>>)) =>
        /\ result.ok
        /\ result.val.tag = "list"
        /\ result.val.children = <<>>

(* What the compiler makes of the element type of a list *)
ElementOf(inner_type) ==
    IF Core(inner_type).k = "model"
    THEN create_xml_element_for_base_model(Core(inner_type).n, None, 2)
    ELSE create_xml_element_for_field(inner_type, None, 2)

(* C7: create_xml_element_for_field on a field whose normalized type is a  *)
(* list with an element type returns, unless compiling the element type    *)
(* raises, a list element with one child, whose tag is the name of the     *)
(* element type; for a model class, also as Optional, the child is an      *)
(* object element with the children that compiling the class yields.       *)
C7_ListHasOneChild ==
    (IsBuildField /\ Core(call.field.annotation).k = "list"
                  /\ Core(call.field.annotation).args # <<>>) =>
        LET inner_type == Core(call.field.annotation).args[1]
        IN  /\ result.ok <=> ElementOf(inner_type).ok
            /\ result.ok =>
                 /\ result.val.tag = "list"
                 /\ Len(result.val.children) = 1
                 /\ Ok(result.val.children[1].tag) = type_annotation_to_string(inner_type)
                 /\ result.val.children[1].children = ElementOf(inner_type).val.children
                 /\ Core(inner_type).k = "model" =>
                        /\ result.val.children[1].tag = "object"
                        /\ Names(result.val.children[1].children) =
                               FieldNamesOf(classes[Core(inner_type).n])

(* C7's case: a list of Optional[B] *)
C7_Witness ==
    /\ IsBuildField /\ result.ok
    /\ call.field.annotation = ListOf(<<Optional(Model("B"))>>)
    /\ Len(result.val.children) = 1
    /\ result.val.children[1].tag = "object"
    /\ Len(result.val.children[1].children) = 2

(* C9: create_xml_element_for_field on a field whose normalized type is a  *)
(* model class returns an object element that has the name, the format,    *)
(* the on-fail-* and the description attributes of the field, and no other *)
(* attribute, and whose children are those that compiling the class yields.*)
C9_AttributesSurvive ==
    (IsBuildField /\ Core(call.field.annotation).k = "model" /\ result.ok) =>
        LET field == call.field
            of_validators == add_validators_to_xml_element(field, E("object")).attrib
            compiled == create_xml_element_for_base_model(Core(field.annotation).n, None, 2)
        IN  /\ result.val.tag = "object"
            /\ Get(result.val, "name") = call.field_name
            /\ Get(result.val, "description") = field.description
            /\ \A i \in 1..Len(of_validators) :
                 Get(result.val, of_validators[i][1]) = Some(of_validators[i][2])
            /\ Len(result.val.attrib) = Len(call.field_name) + Len(field.description)
                                            + Len(of_validators)
            /\ compiled.ok /\ result.val.children = compiled.val.children

(* C9's case: a named field of class B with validators and a description *)
C9_Witness ==
    /\ IsBuildField /\ result.ok
    /\ call.field.annotation = Model("B")
    /\ call.field_name # None
    /\ Get(result.val, "format") = Some("length: 1 10; two-words")
    /\ Get(result.val, "on-fail-length") = Some("reask")
    /\ Get(result.val, "description") # None
    /\ Len(result.val.children) = 2

ClassesReached(model) ==
    {Core(t).n : t \in {u \in TypesReached(model) : Core(u).k = "model"}}

RefersBack(model) ==
    \E c \in ClassesReached(model) \cup {model} : c \in ClassesReached(c)

AcyclicWithinLimit ==
    (IsBuildObject /\ ~RefersBack(call.model)) => (result.ok \/ result.val # RecursionError)

C10_Reached ==
    IsBuildObject /\ RefersBack(call.model) /\ ~result.ok /\ result.val = RecursionError

-----------------------------------------------------------------------------
(* C8: prepare_type_annotation called on what prepare_type_annotation      *)
(* returned, for a ModelField, a Union or any other type, returns too, and *)
(* returns the same type.                                                  *)
C8_PrepareIsIdempotent ==
    (call.op = "prepare_type_annotation" /\ prev # <<>>) =>
        /\ result.ok
        /\ result.val = prev[Len(prev)].result.val

(* C8's case: the second call, after a first one on a field of type        *)
(* Optional[List[int]]                                                     *)
C8_Witness ==
    /\ call.op = "prepare_type_annotation"
    /\ Len(prev) = 1
    /\ prev[1].call.type_annotation = PlainField("a", Optional(ListOf(<<int>>)), None)
    /\ result = Ok(ListOf(<<int>>))

-----------------------------------------------------------------------------
(* What C3 is stated with: the validators of the call that are not given   *)
(* as strings, and the attributes the call added                           *)
IsAddValidators ==
    /\ call.op = "add_validators_to_xml_element"
    /\ isinstance_ModelField(call.field_info)
    /\ call.field_info.has_gd_validators

Specs == call.field_info.gd_validators

NotStr == {i \in 1..Len(Specs) : ~Specs[i].is_str}

ActionOf(validator) == IF validator.on_fail = None THEN "noop" ELSE validator.on_fail[1]

RECURSIVE Texts(_)
Texts(validators) ==
    IF validators = <<>> THEN ""
    ELSE Texts(SubSeq(validators, 1, Len(validators) - 1))
            \o (IF Len(validators) > 1 THEN "; " ELSE "")
            \o validators[Len(validators)].text

Added == SubSeq(result.val.attrib, Len(call.element.attrib) + 1, Len(result.val.attrib))

OnFailAdded == SelectSeq(Added, LAMBDA a : a[1] # "format")

(* C3 as claimed: format is the texts of the validators joined with "; ",  *)
(* and is not set for an empty list; there is one on-fail-<alias>          *)
(* attribute per validator that is not a string, with the name of its      *)
(* on_fail or "noop"; a string adds none.                                  *)
C3_OneOnFailPerValidator ==
    IsAddValidators =>
        /\ Get(result.val, "format") = IF Specs = <<>> THEN None ELSE Some(Texts(Specs))
        /\ SubSeq(result.val.attrib, 1, Len(call.element.attrib)) = call.element.attrib
        /\ Len(OnFailAdded) = Cardinality(NotStr)
        /\ \A i \in NotStr :
             Get(result.val, "on-fail-" \o Specs[i].rail_alias) = Some(ActionOf(Specs[i]))

(* C3 as amended: format as claimed; there is one on-fail-<alias>          *)
(* attribute per rail alias of the validators that are not strings, with   *)
(* the name of the on_fail, or "noop", of the last validator that has the  *)
(* alias; a string adds none.                                              *)
C3_OneOnFailPerAlias ==
    IsAddValidators =>
        /\ Get(result.val, "format") = IF Specs = <<>> THEN None ELSE Some(Texts(Specs))
        /\ SubSeq(result.val.attrib, 1, Len(call.element.attrib)) = call.element.attrib
        /\ Len(Added) = (IF Specs = <<>> THEN 0 ELSE 1) + Len(OnFailAdded)
        /\ Len(OnFailAdded) = Cardinality({Specs[i].rail_alias : i \in NotStr})
        /\ {a[1] : a \in Range(OnFailAdded)} = {"on-fail-" \o Specs[i].rail_alias : i \in NotStr}
        /\ \A i \in NotStr :
             (\A j \in NotStr : j > i => Specs[j].rail_alias # Specs[i].rail_alias)
                => Get(result.val, "on-fail-" \o Specs[i].rail_alias) = Some(ActionOf(Specs[i]))

(* C3's case: length with reask, a string, and valid-choices without       *)
(* on_fail                                                                 *)
C3_Witness ==
    /\ IsAddValidators
    /\ Len(Specs) = 3
    /\ Get(result.val, "format") = Some("length: 1 10; two-words; valid-choices: {['a', 'b']}")
    /\ OnFailAdded = << <<"on-fail-length", "reask">>, <<"on-fail-valid-choices", "noop">> >>

(* A field without gd_validators, and a type that is no ModelField, leave  *)
(* the element as it is                                                    *)
NoValidatorsNoChange ==
    (call.op = "add_validators_to_xml_element" /\ ~IsAddValidators) => result.val = call.element

=============================================================================
